---- MODULE Spec2Model ----
(***************************************************************************)
(* The peer session orchestrator of src/hooks/useHumanChat.ts (the React   *)
(* hook useHumanChat) as a state machine.  Every identity that runs the    *)
(* hook owns one record of hook state (node[n]); the data connections of   *)
(* the transport provider are the records of conns.  An identity that does *)
(* not run the hook is a remote peer of the environment: it may connect,   *)
(* open, close and send any frame.  One action is one callback of the      *)
(* hook, run to completion (the hook is single threaded).                  *)
(***************************************************************************)
EXTENDS Integers, Sequences, FiniteSets, TLC

\* ------------------------------------------------------------------ bounds
\* Data connections ever created (outbound and inbound together) in the
\* matchmaking specification, and in the other specifications.
MaxConns == 3
MaxLinks == 2
\* One-shot timers of one kind that a node may have pending at one time.
MaxTimers == 1
\* Presence timestamps are drawn from 1..MaxTime.
MaxTime == 2
\* Frames in flight towards one end of a connection between two hosted nodes.
MaxQueue == 2
\* checkOffline runs in progress at one time.
MaxPolls == 2
\* Messages of the main conversation, and direct-message events, kept by a node.
MaxMessages == 2
MaxEvents == 3

\* ------------------------------------------------------------- identities
Identities == {"X", "Y", "Z"}
Null == "null"
\* mainConnRef.current = null
NoConn == 0
ConnIds == 1..MaxConns
Times == 1..MaxTime

\* ChatMode
IDLE == "IDLE"
SEARCHING == "SEARCHING"
CONNECTED == "CONNECTED"
DISCONNECTED == "DISCONNECTED"

\* INITIAL_GREETING (id 'init-1'), the first message of a matched conversation
INITIAL_GREETING == [id |-> "init-1", sender |-> "stranger", status |-> "sent"]

VARIABLES
  hosted,   \* the identities whose hook is running (constant along a behaviour)
  node,     \* node[n]: the hook state of identity n (state, refs, timers)
  conns,    \* the data connections created so far, conns[c] for c in 1..Len(conns)
  ev        \* the callback that ran last, and what it was given

vars == <<hosted, node, conns, ev>>

\* ------------------------------------------------------------ hook state
\* useState / useRef initial values, after the first render with a profile:
\* the transport handle exists but has not opened.
InitNode ==
  [ status                  |-> IDLE,
    messages                |-> << >>,
    partnerTyping           |-> FALSE,
    partnerRecording        |-> FALSE,
    partnerProfile          |-> Null,
    remoteVanishMode        |-> Null,
    partnerPeerId           |-> Null,
    onlineUsers             |-> << >>,
    myPeerId                |-> Null,
    peerRef                 |-> "preferred",
    peerOpen                |-> FALSE,
    error                   |-> Null,
    mainConnRef             |-> NoConn,
    directConnsRef          |-> {},
    activeDirectConnections |-> {},
    friends                 |-> << >>,
    friendRequests          |-> << >>,
    chat_friends            |-> << >>,
    isMatchmakerRef         |-> FALSE,
    channelRef              |-> FALSE,
    subscribed              |-> FALSE,
    tracked                 |-> "none",
    scanInterval            |-> FALSE,
    connectionTimeouts      |-> 0,
    closeTimers             |-> 0,
    closeTargets            |-> << >>,
    processedMessageIds     |-> {},
    directEvents            |-> << >>,
    markedRead              |-> << >>,
    polls                   |-> << >>,
    out                     |-> << >>,
    storeOut                |-> << >>,
    globalMessages          |-> << >>,
    globalMounted           |-> TRUE,
    globalPeerId            |-> Null,
    historyEffect           |-> 1,
    historyFetches          |-> {[effect |-> 1, attempt |-> 1, read |-> FALSE, history |-> << >>]},
    historyStarted          |-> <<1>>,
    retryTimers             |-> {},
    retryTimeoutRef         |-> {},
    globalOutbox            |-> {},
    globalRows              |-> {},
    globalInserts           |-> {} ]

\* Fields of node[n] that are not fields of the hook:
\*   peerRef            the handle in peerRef.current: "preferred", the one created with
\*                      persistentId and given the handlers, or "fallback", the one
\*                      created by the 'unavailable-id' branch of peer.on('error')
\*   peerOpen           the handle in peerRef.current has opened
\*   chat_friends       the friend ids under the key 'chat_friends' of localStorage
\*   tracked            the status of the last channel.track call ("none" before the first)
\*   subscribed         the channel reported SUBSCRIBED
\*   scanInterval       the matchmaking effect has its setInterval installed
\*   connectionTimeouts pending 5 s timeouts of matchmaking attempts
\*   closeTimers        pending 100 ms timers of cleanupMain
\*   closeTargets       for each pending timer of cleanupMain, oldest first, the
\*                      connection that was in mainConnRef when it was armed
\*   directEvents       the calls of setIncomingDirectMessage so far, in order
\*   markedRead         the calls of markMessageAsRead so far, in order
\*   polls              the checkOffline runs in progress, each the rows it still has to process
\*   out, storeOut      the frames passed to conn.send, and the rows passed to
\*                      sendOfflineMessage, by the callback that ran last
\* The record also holds the state of the hook useGlobalChat, which the same
\* component mounts and gives myPeerId (src/hooks/useGlobalChat.ts):
\*   globalMounted      useGlobalChat is mounted
\*   globalPeerId       the myPeerId its effects ran with last
\*   historyEffect      the number of the current run of the history effect; the
\*                      variable `mounted` of run e is true while e is the
\*                      current run and the hook is mounted
\*   historyFetches     the fetchRecentGlobalMessages calls in flight: the run and
\*                      the attempt they belong to, and the rows the store read
\*                      for them, once it has
\*   historyStarted     historyStarted[e]: the fetches that run e has started
\*   retryTimers        the pending setTimeout timers of loadHistory
\*   retryTimeoutRef    the timer in retryTimeoutRef.current (empty for null)
\*   globalOutbox       the sendPersistentGlobalMessage calls in flight
\*   globalRows         the rows of the table global_messages
\*   globalInserts      the realtime INSERT events not delivered yet

\* ev names the callback that ran last when a property is about that callback
\* (op "other" for the rest): the type of the frame it was given, whether
\* conn === mainConnRef.current and the value of status when it started, and for
\* a direct send the target, the message id and whether conn.send threw; for a
\* row of the durable store, whether processOfflineMessage found its id processed;
\* for a frame, the connection it arrived on, and for a friend_request whether
\* a request of its sender was pending; for a fetch of the global history, its
\* attempt (in c), whether its result was merged (frame "merged") and whether
\* the list held a message of the result; for a realtime insert of the global
\* chat, whether the list held its id.
NoEvent ==
  [n |-> Null, op |-> "other", frame |-> "none", isMain |-> FALSE, was |-> IDLE,
   peer |-> Null, id |-> "none", threw |-> FALSE, dup |-> FALSE, c |-> NoConn]

Event(n, op, frame, isMain) ==
  [n |-> n, op |-> op, frame |-> frame, isMain |-> isMain, was |-> node[n].status,
   peer |-> Null, id |-> "none", threw |-> FALSE, dup |-> FALSE, c |-> NoConn]

\* ------------------------------------------------------------ connections
\* One DataConnection: src called peer.connect(dst, {metadata: {type: kind}}).
\* srcSt / dstSt are the transport states of its two ends ("none": the
\* 'connection' event has not reached dst yet; "env": the end belongs to a
\* remote peer of the environment).  srcCap / dstCap are the values of `status`
\* that the handlers registered by setupConnection closed over at each end.
\* qSrc / qDst are the frames in flight towards each end.
NewConn(src, dst, kind, cap) ==
  [ src |-> src, dst |-> dst, kind |-> kind,
    srcSt  |-> IF src \in hosted THEN "connecting" ELSE "env",
    dstSt  |-> IF dst \in hosted THEN "none" ELSE "env",
    srcCap |-> cap, dstCap |-> IDLE,
    qSrc |-> << >>, qDst |-> << >> ]

Used == 1..Len(conns)

\* conn.peer, seen from n
PeerOf(cs, c, n) == IF cs[c].src = n THEN cs[c].dst ELSE cs[c].src

EndSt(cs, c, n) == IF cs[c].src = n THEN cs[c].srcSt ELSE cs[c].dstSt

\* conn.open, seen from n
IsOpen(cs, c, n) == c # NoConn /\ EndSt(cs, c, n) = "open"

\* the `status` the handlers of n's end closed over
CapOf(cs, c, n) == IF cs[c].src = n THEN cs[c].srcCap ELSE cs[c].dstCap

SetEnd(cs, c, n, st) ==
  IF cs[c].src = n THEN [cs EXCEPT ![c].srcSt = st] ELSE [cs EXCEPT ![c].dstSt = st]

\* conn.close() called by n: n's end is closed from now on
CloseLocal(cs, c, n) ==
  IF c # NoConn /\ EndSt(cs, c, n) \in {"connecting", "open"} THEN SetEnd(cs, c, n, "closed")
  ELSE cs

Frame(type, payload, id) == [type |-> type, payload |-> payload, id |-> id]

\* conn.send(frame) by n: recorded in s.out when the end is open, dropped otherwise
Send(s, cs, c, n, frame) ==
  IF IsOpen(cs, c, n) THEN [s EXCEPT !.out = Append(@, [c |-> c, frame |-> frame])] ELSE s

\* The frames n sent in one callback reach the queue of the other end, when
\* that end belongs to a hosted node.
RECURSIVE Enqueue(_, _, _)
Enqueue(cs, n, sent) ==
  IF sent = << >> THEN cs
  ELSE LET c == Head(sent).c
           f == Head(sent).frame
           cs1 == IF PeerOf(cs, c, n) \notin hosted THEN cs
                  ELSE IF cs[c].src = n THEN [cs EXCEPT ![c].qDst = Append(@, f)]
                  ELSE [cs EXCEPT ![c].qSrc = Append(@, f)]
       IN Enqueue(cs1, n, Tail(sent))

QueuesOk(cs) == \A c \in 1..Len(cs) : Len(cs[c].qSrc) <= MaxQueue /\ Len(cs[c].qDst) <= MaxQueue

\* ------------------------------------------------------- connection registry
\* Mutant of MapSet: the entry is added beside the one of the same identity
MapSet_Add(m, k, v) == m \cup {<<k, v>>}

\* Map.prototype.set on directConnsRef, a set of <<identity, connection>> pairs
MapSet(m, k, v) == {e \in m : e[1] # k} \cup {<<k, v>>}

\* Mutant of MapDelete: the map is emptied
MapDelete_All(m, k) == {}

\* Map.prototype.delete
MapDelete(m, k) == {e \in m : e[1] # k}

\* Map.prototype.has
MapHas(m, k) == \E e \in m : e[1] = k

\* Map.prototype.get (NoConn for undefined)
MapGet(m, k) == IF MapHas(m, k) THEN (CHOOSE e \in m : e[1] = k)[2] ELSE NoConn

\* channelRef.current.track({status, ...}) guarded by channelRef && myPeerIdRef
Track(s, st) == IF s.channelRef /\ s.myPeerId # Null THEN [s EXCEPT !.tracked = st] ELSE s

\* setupConnection(conn, metadata) up to the registration of the handlers
setupConnection(s, c, peer, kind) ==
  IF kind = "random"
  THEN Track([s EXCEPT !.mainConnRef = c, !.partnerPeerId = peer, !.isMatchmakerRef = FALSE],
             "busy")
  ELSE [s EXCEPT !.directConnsRef = MapSet(@, peer, c),
                 !.activeDirectConnections = @ \cup {peer}]

\* ----------------------------------------------------------- matchmaking
\* The matchmaking effect: whether the 2 s scan interval is installed after
\* a render in which status, onlineUsers or myPeerId changed.
ScanEffect(s) ==
  [s EXCEPT !.scanInterval =
     ~(s.status # SEARCHING \/ s.myPeerId = Null \/ ~s.channelRef
       \/ s.isMatchmakerRef \/ s.mainConnRef # NoConn)]

\* Re-run the effect only when one of its dependencies changed.
Rendered(old, new) ==
  IF old.status # new.status \/ old.myPeerId # new.myPeerId THEN ScanEffect(new) ELSE new

\* onlineUsers.filter(u => u.status === 'waiting' && u.peerId !== myPeerId)
Waiting(s) == SelectSeq(s.onlineUsers, LAMBDA u : u.status = "waiting" /\ u.peerId # s.myPeerId)

\* Mutant of Earliest: the list is not sorted
Earliest_Unsorted(w) == w[1]

\* .sort((a, b) => a.timestamp - b.timestamp)[0]: the sort is stable, so the
\* first of the entries with the least timestamp
Earliest(w) ==
  LET i == CHOOSE i \in 1..Len(w) :
             /\ \A j \in 1..Len(w) : w[i].timestamp <= w[j].timestamp
             /\ \A j \in 1..(i - 1) : w[j].timestamp > w[i].timestamp
  IN w[i]

\* ------------------------------------------------------------- actions
\* peer.on('open'): the identity is resolved; the presence effect creates the channel
PeerOpen(n) ==
  /\ n \in hosted
  /\ node[n].myPeerId = Null
  /\ node[n].peerRef = "preferred"
  /\ node' = [node EXCEPT ![n] =
        Rendered(@, [@ EXCEPT !.myPeerId = n, !.peerOpen = TRUE, !.channelRef = TRUE,
                               !.out = << >>])]
  /\ ev' = NoEvent
  /\ UNCHANGED <<hosted, conns>>

\* peer.on('error') with err.type 'unavailable-id': peerRef.current = new Peer(peerConfig).
\* The handle that failed is destroyed by the transport; no handler is
\* registered on the new one.
PeerIdTaken(n) ==
  /\ n \in hosted
  /\ node[n].peerRef = "preferred" /\ ~node[n].peerOpen
  /\ node' = [node EXCEPT ![n] = [@ EXCEPT !.peerRef = "fallback", !.out = << >>]]
  /\ ev' = NoEvent
  /\ UNCHANGED <<hosted, conns>>

\* The handle created by the 'unavailable-id' branch opens with a
\* provider-assigned identity: it has no 'open' listener, no callback runs
FallbackOpen(n) ==
  /\ n \in hosted
  /\ node[n].peerRef = "fallback" /\ ~node[n].peerOpen
  /\ node' = [node EXCEPT ![n] = [@ EXCEPT !.peerOpen = TRUE, !.out = << >>]]
  /\ ev' = NoEvent
  /\ UNCHANGED <<hosted, conns>>

\* A remote peer p connects to the handle created by the 'unavailable-id'
\* branch: it has no 'connection' listener, so setupConnection is not called
\* and the connection gets no handlers ("unhandled")
FallbackConnection(p, n, kind) ==
  /\ n \in hosted /\ p \notin hosted
  /\ node[n].peerRef = "fallback" /\ node[n].peerOpen
  /\ conns' = Append(conns, [NewConn(p, n, kind, IDLE) EXCEPT !.dstSt = "unhandled"])
  /\ node' = [node EXCEPT ![n] = [@ EXCEPT !.out = << >>]]
  /\ ev' = NoEvent
  /\ UNCHANGED hosted

\* channel.subscribe callback with SUBSCRIBED: track status 'idle'
Subscribed(n) ==
  /\ n \in hosted
  /\ node[n].channelRef /\ ~node[n].subscribed
  /\ node' = [node EXCEPT ![n] = Track([@ EXCEPT !.subscribed = TRUE, !.out = << >>], "idle")]
  /\ ev' = NoEvent
  /\ UNCHANGED <<hosted, conns>>

\* presence 'sync': setOnlineUsers(allUsers); the matchmaking effect runs again
PresenceSync(n, snapshot) ==
  /\ n \in hosted
  /\ node[n].channelRef
  /\ snapshot # node[n].onlineUsers
  /\ node' = [node EXCEPT ![n] = ScanEffect([@ EXCEPT !.onlineUsers = snapshot, !.out = << >>])]
  /\ ev' = NoEvent
  /\ UNCHANGED <<hosted, conns>>

\* Mutant of connect: the search starts whether or not the channel and the
\* identity are ready
connect_NoGuard(n) ==
  /\ n \in hosted
  /\ LET s == [node[n] EXCEPT !.out = << >>]
     IN node' = [node EXCEPT ![n] =
          Rendered(s, Track([s EXCEPT !.status = SEARCHING, !.messages = << >>,
                                      !.error = Null], "waiting"))]
  /\ ev' = Event(n, "connect", "none", FALSE)
  /\ UNCHANGED <<hosted, conns>>

\* connect()
connect(n) ==
  /\ n \in hosted
  /\ LET s == [node[n] EXCEPT !.out = << >>]
     IN node' = [node EXCEPT ![n] =
          IF s.channelRef /\ s.myPeerId # Null
          THEN Rendered(s, Track([s EXCEPT !.status = SEARCHING, !.messages = << >>,
                                           !.error = Null], "waiting"))
          ELSE [s EXCEPT !.error = "Connection lost. Please refresh."]]
  /\ ev' = Event(n, "connect", "none", FALSE)
  /\ UNCHANGED <<hosted, conns>>

\* One tick of the scan interval that finds a waiter: peer.connect to the
\* earliest one, setupConnection, and the 5 s timeout of the attempt.
ScanTick(n) ==
  /\ n \in hosted
  /\ node[n].scanInterval
  /\ ~(node[n].isMatchmakerRef \/ node[n].mainConnRef # NoConn)
  /\ Waiting(node[n]) # << >>
  /\ node[n].connectionTimeouts < MaxTimers
  /\ LET s == [node[n] EXCEPT !.out = << >>, !.isMatchmakerRef = TRUE]
         target == Earliest(Waiting(s))
         c == Len(conns) + 1
     IN /\ conns' = Append(conns, NewConn(n, target.peerId, "random", SEARCHING))
        /\ node' = [node EXCEPT ![n] =
              [setupConnection(s, c, target.peerId, "random")
                 EXCEPT !.connectionTimeouts = @ + 1]]
        /\ ev' = Event(n, "scanTick", "none", TRUE)
  /\ UNCHANGED hosted

\* One tick of the scan interval that finds no waiter: nothing is done
ScanTickIdle(n) ==
  /\ n \in hosted
  /\ node[n].scanInterval
  /\ ~(node[n].isMatchmakerRef \/ node[n].mainConnRef # NoConn)
  /\ Waiting(node[n]) = << >>
  /\ node' = [node EXCEPT ![n] = [@ EXCEPT !.out = << >>]]
  /\ ev' = Event(n, "scanTick", "none", FALSE)
  /\ UNCHANGED <<hosted, conns>>

\* The 5 s timeout of a matchmaking attempt fires
ConnectionTimeout(n) ==
  /\ n \in hosted
  /\ node[n].connectionTimeouts > 0
  /\ LET s == [node[n] EXCEPT !.out = << >>, !.connectionTimeouts = @ - 1]
     IN node' = [node EXCEPT ![n] =
          IF s.isMatchmakerRef /\ (s.mainConnRef = NoConn \/ ~IsOpen(conns, s.mainConnRef, n))
          THEN [s EXCEPT !.isMatchmakerRef = FALSE, !.mainConnRef = NoConn]
          ELSE s]
  /\ ev' = Event(n, "connectionTimeout", "none", FALSE)
  /\ UNCHANGED <<hosted, conns>>

\* ----------------------------------------------------- connection handlers
\* A callback of n ends: the render it causes, and the frames it sent
Commit(n, s, cs) ==
  /\ node' = [node EXCEPT ![n] = Rendered(node[n], s)]
  /\ conns' = Enqueue(cs, n, s.out)
  /\ QueuesOk(conns')

\* Mutant of onOpen: the main connection opening does not enter Connected
onOpen_NoStatus(s, cs, c, n) == Send(s, cs, c, n, Frame("profile", n, "none"))

\* conn.on('open')
onOpen(s, cs, c, n) ==
  LET s1 == IF c = s.mainConnRef
            THEN [s EXCEPT !.status = CONNECTED, !.messages = <<INITIAL_GREETING>>,
                           !.error = Null]
            ELSE s
  IN Send(s1, cs, c, n, Frame("profile", n, "none"))

\* conn.on('close'); status is the value the handler closed over
onClose(s, cs, c, n) ==
  IF c = s.mainConnRef /\ CapOf(cs, c, n) = CONNECTED
  THEN [s EXCEPT !.status = DISCONNECTED, !.messages = << >>, !.partnerPeerId = Null]
  ELSE [s EXCEPT !.directConnsRef = MapDelete(@, PeerOf(cs, c, n)),
                 !.activeDirectConnections = @ \ {PeerOf(cs, c, n)}]

\* conn.on('error'); status is the value the handler closed over
onError(s, cs, c, n) ==
  IF c = s.mainConnRef /\ CapOf(cs, c, n) = SEARCHING
  THEN [s EXCEPT !.isMatchmakerRef = FALSE, !.mainConnRef = NoConn]
  ELSE s

\* Mutant of MarkSeen: every message of the conversation is marked
MarkSeen_All(msgs, id) == [i \in 1..Len(msgs) |-> [msgs[i] EXCEPT !.status = "seen"]]

\* setMessages(prev => prev.map(m => m.id === id ? {...m, status: 'seen'} : m))
MarkSeen(msgs, id) ==
  [i \in 1..Len(msgs) |-> IF msgs[i].id = id THEN [msgs[i] EXCEPT !.status = "seen"] ELSE msgs[i]]

\* handleIncomingData, 'disconnect' on the main connection
onMainDisconnect(s) ==
  [s EXCEPT !.status = DISCONNECTED, !.messages = << >>, !.partnerPeerId = Null,
            !.mainConnRef = NoConn]

\* Whether the list of records l has an entry of identity p
HasPeer(l, p) == \E i \in 1..Len(l) : l[i].peerId = p

\* prev.filter(req => req.peerId !== peerId)
WithoutPeer(l, p) == SelectSeq(l, LAMBDA r : r.peerId # p)

\* saveFriend(profile, peerId)
saveFriend(s, peerId) ==
  IF HasPeer(s.chat_friends, peerId) THEN s
  ELSE LET friendList == <<[peerId |-> peerId]>> \o s.chat_friends
       IN [s EXCEPT !.chat_friends = friendList, !.friends = friendList,
                    !.friendRequests = WithoutPeer(@, peerId)]

\* Mutant of onFriendRequest: the friend set is not consulted
onFriendRequest_NoFriendCheck(s, peer, payload) ==
  IF HasPeer(s.friendRequests, peer) THEN s
  ELSE [s EXCEPT !.friendRequests = Append(@, [peerId |-> peer, profile |-> payload])]

\* Mutant of onFriendRequest: the request is appended beside a pending one
onFriendRequest_NoPendingCheck(s, peer, payload) ==
  IF HasPeer(s.friends, peer) THEN s
  ELSE [s EXCEPT !.friendRequests = Append(@, [peerId |-> peer, profile |-> payload])]

\* handleIncomingData, 'friend_request' from conn.peer
onFriendRequest(s, peer, payload) ==
  IF HasPeer(s.friends, peer) \/ HasPeer(s.friendRequests, peer) THEN s
  ELSE [s EXCEPT !.friendRequests = Append(@, [peerId |-> peer, profile |-> payload])]

\* Mutant of Acknowledge: the acknowledgment goes to the main connection
Acknowledge_OnMain(s, cs, c, n, msgId) ==
  Send(s, cs, s.mainConnRef, n, Frame("seen", "none", msgId))

\* conn.send({ type: 'seen', messageId: msgId })
Acknowledge(s, cs, c, n, msgId) == Send(s, cs, c, n, Frame("seen", "none", msgId))

\* handleIncomingData(data, conn) at n; the result is the hook state and the connections
handleIncomingData(s, cs, c, n, data) ==
  LET isMain == c = s.mainConnRef
      peer == PeerOf(cs, c, n)
      same == [s |-> s, cs |-> cs]
  IN CASE data.type = "message" ->
            LET newMessage == [id |-> data.id, sender |-> "stranger", status |-> "sent"]
            IN IF isMain
               THEN [same EXCEPT !.s =
                       Acknowledge([s EXCEPT !.messages = Append(@, newMessage),
                                             !.partnerTyping = FALSE], cs, c, n, data.id)]
               ELSE [same EXCEPT !.s =
                       Acknowledge([s EXCEPT !.directEvents =
                                      Append(@, [peerId |-> peer, id |-> data.id, via |-> "live"])],
                                   cs, c, n, data.id)]
       [] data.type = "seen" ->
            IF isMain THEN [same EXCEPT !.s.messages = MarkSeen(@, data.id)] ELSE same
       [] data.type = "typing" ->
            IF isMain THEN [same EXCEPT !.s.partnerTyping = (data.payload = "true")] ELSE same
       [] data.type = "recording" ->
            IF isMain THEN [same EXCEPT !.s.partnerRecording = (data.payload = "true")] ELSE same
       [] data.type = "profile" ->
            IF isMain THEN [same EXCEPT !.s.partnerProfile = data.payload] ELSE same
       [] data.type = "friend_request" ->
            [same EXCEPT !.s = onFriendRequest(s, peer, data.payload)]
       [] data.type = "friend_accept" ->
            [same EXCEPT !.s = saveFriend(s, peer)]
       [] data.type = "disconnect" ->
            IF isMain
            THEN [s |-> onMainDisconnect(s), cs |-> CloseLocal(cs, c, n)]
            ELSE [same EXCEPT !.s.directConnsRef = MapDelete(@, peer),
                              !.s.activeDirectConnections = @ \ {peer}]
       [] data.type = "vanish_mode" ->
            IF isMain THEN [same EXCEPT !.s.remoteVanishMode = data.payload] ELSE same
       [] OTHER -> same

\* cleanupMain()
cleanupMain(s, cs, n) ==
  LET s1 == IF s.mainConnRef # NoConn
            THEN [Send(s, cs, s.mainConnRef, n, Frame("disconnect", "none", "none"))
                    EXCEPT !.closeTimers = @ + 1, !.closeTargets = Append(@, s.mainConnRef)]
            ELSE [s EXCEPT !.mainConnRef = NoConn]
  IN [Track([s1 EXCEPT !.isMatchmakerRef = FALSE, !.partnerTyping = FALSE,
                       !.partnerRecording = FALSE, !.partnerPeerId = Null,
                       !.partnerProfile = Null, !.remoteVanishMode = Null], "idle")
        EXCEPT !.status = DISCONNECTED]

\* disconnect(): cleanupMain(); setMessages([])
disconnect(n) ==
  /\ n \in hosted
  /\ node[n].mainConnRef # NoConn => node[n].closeTimers < MaxTimers
  /\ LET s == [node[n] EXCEPT !.out = << >>]
     IN Commit(n, [cleanupMain(s, conns, n) EXCEPT !.messages = << >>], conns)
  /\ ev' = Event(n, "disconnect", "none", node[n].mainConnRef # NoConn)
  /\ UNCHANGED hosted

\* The 100 ms timer of cleanupMain fires: mainConnRef.current?.close(); mainConnRef.current = null
CloseTimer(n) ==
  /\ n \in hosted
  /\ node[n].closeTimers > 0
  /\ LET s == [node[n] EXCEPT !.out = << >>, !.closeTimers = @ - 1, !.closeTargets = Tail(@)]
     IN Commit(n, [s EXCEPT !.mainConnRef = NoConn], CloseLocal(conns, s.mainConnRef, n))
  /\ ev' = Event(n, "closeTimer", "none", node[n].mainConnRef # NoConn)
  /\ UNCHANGED hosted

\* ------------------------------------------------------- transport events
\* peer.on('connection') at n for a connection opened by a remote peer p of
\* the environment: setupConnection(conn, conn.metadata).  The handler was
\* registered by the render that created the transport handle, so the
\* setupConnection it calls closed over status IDLE.
EnvConnect(p, n, kind) ==
  /\ n \in hosted /\ p \notin hosted
  /\ node[n].myPeerId # Null
  /\ LET s == [node[n] EXCEPT !.out = << >>]
         c == Len(conns) + 1
         cs == Append(conns, [NewConn(p, n, kind, IDLE) EXCEPT !.dstSt = "connecting"])
     IN Commit(n, setupConnection(s, c, p, kind), cs)
  /\ ev' = Event(n, "connection", kind, kind = "random")
  /\ UNCHANGED hosted

\* peer.on('connection') at a hosted node for a connection of another hosted node
Deliver(c) ==
  /\ c \in Used
  /\ conns[c].dstSt = "none"
  /\ conns[c].srcSt \in {"connecting", "open"}
  /\ LET n == conns[c].dst
         s == [node[n] EXCEPT !.out = << >>]
     IN /\ node[n].myPeerId # Null
        /\ Commit(n, setupConnection(s, c, conns[c].src, conns[c].kind),
                  SetEnd(conns, c, n, "connecting"))
        /\ ev' = Event(n, "connection", conns[c].kind, conns[c].kind = "random")
  /\ UNCHANGED hosted

\* The other end of c, seen from n, can still take part in the connection
OtherEndUp(c, n) ==
  LET o == IF conns[c].src = n THEN conns[c].dstSt ELSE conns[c].srcSt
  IN o \in {"env", "connecting", "open"}

\* conn 'open' at n
OpenEvent(c, n) ==
  /\ c \in Used /\ n \in hosted /\ n \in {conns[c].src, conns[c].dst}
  /\ EndSt(conns, c, n) = "connecting"
  /\ OtherEndUp(c, n)
  /\ LET s == [node[n] EXCEPT !.out = << >>]
         cs == SetEnd(conns, c, n, "open")
     IN Commit(n, onOpen(s, cs, c, n), cs)
  /\ ev' = Event(n, "open", "none", c = node[n].mainConnRef)
  /\ UNCHANGED hosted

\* conn 'close' at n: the transport of an open connection went down
CloseEvent(c, n) ==
  /\ c \in Used /\ n \in hosted /\ n \in {conns[c].src, conns[c].dst}
  /\ EndSt(conns, c, n) = "open"
  /\ LET s == [node[n] EXCEPT !.out = << >>]
         cs == SetEnd(conns, c, n, "closed")
     IN Commit(n, onClose(s, cs, c, n), cs)
  /\ ev' = [Event(n, "close", "none", c = node[n].mainConnRef) EXCEPT !.c = c]
  /\ UNCHANGED hosted

\* conn 'error' at n: the connection attempt failed
ErrorEvent(c, n) ==
  /\ c \in Used /\ n \in hosted /\ n \in {conns[c].src, conns[c].dst}
  /\ EndSt(conns, c, n) = "connecting"
  /\ LET s == [node[n] EXCEPT !.out = << >>]
         cs == SetEnd(conns, c, n, "closed")
     IN Commit(n, onError(s, cs, c, n), cs)
  /\ ev' = NoEvent
  /\ UNCHANGED hosted

\* The logs of a node have room for what the frame adds
Room(s, c, data) ==
  data.type = "message" =>
    IF c = s.mainConnRef THEN Len(s.messages) < MaxMessages
    ELSE Len(s.directEvents) < MaxEvents

\* conn 'data' at n, the frame sent by a remote peer of the environment
EnvFrame(c, n, data) ==
  /\ c \in Used /\ n \in hosted /\ n \in {conns[c].src, conns[c].dst}
  /\ PeerOf(conns, c, n) \notin hosted
  /\ EndSt(conns, c, n) = "open"
  /\ Room(node[n], c, data)
  /\ LET s == [node[n] EXCEPT !.out = << >>]
         r == handleIncomingData(s, conns, c, n, data)
     IN Commit(n, r.s, r.cs)
  /\ ev' = [Event(n, "data", data.type, c = node[n].mainConnRef)
              EXCEPT !.id = data.id, !.c = c,
                     !.dup = /\ data.type = "friend_request"
                             /\ HasPeer(node[n].friendRequests, PeerOf(conns, c, n))]
  /\ UNCHANGED hosted

\* conn 'data' at n, the frame sent by the hosted node at the other end
DeliverFrame(c, n) ==
  /\ c \in Used /\ n \in hosted /\ n \in {conns[c].src, conns[c].dst}
  /\ EndSt(conns, c, n) = "open"
  /\ LET q == IF conns[c].src = n THEN conns[c].qSrc ELSE conns[c].qDst
     IN /\ q # << >>
        /\ Room(node[n], c, Head(q))
        /\ LET s == [node[n] EXCEPT !.out = << >>]
               cs == IF conns[c].src = n THEN [conns EXCEPT ![c].qSrc = Tail(@)]
                     ELSE [conns EXCEPT ![c].qDst = Tail(@)]
               r == handleIncomingData(s, cs, c, n, Head(q))
           IN /\ Commit(n, r.s, r.cs)
              /\ ev' = [Event(n, "data", Head(q).type, c = node[n].mainConnRef)
                          EXCEPT !.id = Head(q).id, !.c = c]
  /\ UNCHANGED hosted

\* sendMessage(text); id is Date.now().toString() + Math.random(), an id that no
\* message of the conversation has
sendMessage(n, id) ==
  /\ n \in hosted
  /\ \A i \in 1..Len(node[n].messages) : node[n].messages[i].id # id
  /\ Len(node[n].messages) <= MaxMessages
  /\ LET s == [node[n] EXCEPT !.out = << >>]
         main == s.mainConnRef
     IN Commit(n, IF main # NoConn /\ IsOpen(conns, main, n)
                  THEN [Send(s, conns, main, n, Frame("message", "text", id))
                          EXCEPT !.messages = Append(@, [id |-> id, sender |-> "me",
                                                          status |-> "sent"])]
                  ELSE s, conns)
  /\ ev' = [Event(n, "sendMessage", "message", TRUE) EXCEPT !.id = id]
  /\ UNCHANGED hosted

\* removeFriend(peerId)
removeFriend(n, peerId) ==
  /\ n \in hosted
  /\ LET friendList == WithoutPeer(node[n].chat_friends, peerId)
     IN node' = [node EXCEPT ![n] = [@ EXCEPT !.chat_friends = friendList,
                                              !.friends = friendList, !.out = << >>]]
  /\ ev' = NoEvent
  /\ UNCHANGED <<hosted, conns>>

\* rejectFriendRequest(peerId)
rejectFriendRequest(n, peerId) ==
  /\ n \in hosted
  /\ node' = [node EXCEPT ![n] = [@ EXCEPT !.friendRequests = WithoutPeer(@, peerId),
                                           !.out = << >>]]
  /\ ev' = Event(n, "rejectFriendRequest", "none", FALSE)
  /\ UNCHANGED <<hosted, conns>>

\* acceptFriendRequest(req): req is a request of the list, or none (Null) and
\* the first of the list is taken.  The answer goes on the direct connection
\* to the requester, or on the main one, when that is open and is a
\* connection to the requester; else on a connection made for it ("temp"),
\* which is not given to setupConnection.
acceptFriendRequest(n, req) ==
  /\ n \in hosted
  /\ req # Null => HasPeer(node[n].friendRequests, req)
  /\ LET s == [node[n] EXCEPT !.out = << >>]
         target == IF req # Null THEN req
                   ELSE IF s.friendRequests # << >> THEN s.friendRequests[1].peerId ELSE Null
         direct == MapGet(s.directConnsRef, target)
         conn == IF direct # NoConn THEN direct ELSE s.mainConnRef
         live == conn # NoConn /\ IsOpen(conns, conn, n) /\ PeerOf(conns, conn, n) = target
         s1 == saveFriend(s, target)
         s2 == [s1 EXCEPT !.friendRequests = WithoutPeer(@, target)]
     IN IF target = Null THEN Commit(n, s, conns)
        ELSE IF live
        THEN Commit(n, Send(s2, conns, conn, n, Frame("friend_accept", n, "none")), conns)
        ELSE /\ Len(conns) < MaxConns
             /\ Commit(n, s2, Append(conns, [NewConn(n, target, "temp", s.status)
                                                EXCEPT !.srcSt = "temp"]))
  /\ ev' = [Event(n, "acceptFriendRequest", "none", FALSE) EXCEPT !.peer = req]
  /\ UNCHANGED hosted

\* temp 'open' of acceptFriendRequest: temp.send({ type: 'friend_accept', ... })
TempOpen(c, n) ==
  /\ c \in Used /\ n \in hosted /\ conns[c].src = n
  /\ conns[c].srcSt = "temp"
  /\ LET cs == [conns EXCEPT ![c].srcSt = "open"]
     IN Commit(n, Send([node[n] EXCEPT !.out = << >>], cs, c, n,
                       Frame("friend_accept", n, "none")), cs)
  /\ ev' = NoEvent
  /\ UNCHANGED hosted

\* ------------------------------------------------------- direct connections
\* callPeer(peerId) (the saveToRecent call is outside the model)
callPeer(n, peerId) ==
  /\ n \in hosted /\ peerId # n
  /\ ~MapHas(node[n].directConnsRef, peerId)
  /\ LET s == [node[n] EXCEPT !.out = << >>]
         c == Len(conns) + 1
     IN Commit(n, setupConnection(s, c, peerId, "direct"),
               Append(conns, NewConn(n, peerId, "direct", node[n].status)))
  /\ ev' = NoEvent
  /\ UNCHANGED hosted

\* isPeerConnected(peerId)
isPeerConnected(s, peerId) == peerId \in s.activeDirectConnections

\* onlineUsers.some(u => u.peerId === peerId)
isOnline(s, peerId) == \E i \in 1..Len(s.onlineUsers) : s.onlineUsers[i].peerId = peerId

\* Mutant of LiveEligible: presence membership is not consulted
LiveEligible_NoPresence(s, cs, n, peerId) ==
  LET conn == MapGet(s.directConnsRef, peerId)
  IN conn # NoConn /\ IsOpen(cs, conn, n)

\* sendDirect*: if (isOnline && conn && conn.open)
LiveEligible(s, cs, n, peerId) ==
  LET conn == MapGet(s.directConnsRef, peerId)
  IN isOnline(s, peerId) /\ conn # NoConn /\ IsOpen(cs, conn, n)

\* Mutant of NeedsFallback: the store is written whatever the live send did
NeedsFallback_Always(s, sentViaP2P) == s.myPeerId # Null

\* sendDirect*: if (!sentViaP2P && myPeerIdRef.current)
NeedsFallback(s, sentViaP2P) == ~sentViaP2P /\ s.myPeerId # Null

\* The body shared by sendDirectMessage, sendDirectImage and sendDirectAudio:
\* dataType is 'text', 'image' or 'audio'; throws: conn.send raises.
sendDirect(s, cs, n, peerId, id, dataType, throws) ==
  LET conn == MapGet(s.directConnsRef, peerId)
      sentViaP2P == LiveEligible(s, cs, n, peerId) /\ ~throws
      s1 == IF sentViaP2P THEN Send(s, cs, conn, n, Frame("message", dataType, id)) ELSE s
  IN IF NeedsFallback(s1, sentViaP2P)
     THEN [s1 EXCEPT !.storeOut =
             Append(@, [from |-> s.myPeerId, to |-> peerId, id |-> id, type |-> dataType])]
     ELSE s1

\* sendDirectMessage(peerId, text, id)
sendDirectMessage(n, peerId, id, throws) ==
  /\ n \in hosted /\ peerId # n
  /\ throws => LiveEligible(node[n], conns, n, peerId)
  /\ LET s == [node[n] EXCEPT !.out = << >>, !.storeOut = << >>]
     IN Commit(n, sendDirect(s, conns, n, peerId, id, "text", throws), conns)
  /\ ev' = [Event(n, "sendDirectMessage", "text", FALSE)
              EXCEPT !.peer = peerId, !.id = id, !.threw = throws]
  /\ UNCHANGED hosted

\* sendDirectImage(peerId, b64, id)
sendDirectImage(n, peerId, id, throws) ==
  /\ n \in hosted /\ peerId # n
  /\ throws => LiveEligible(node[n], conns, n, peerId)
  /\ LET s == [node[n] EXCEPT !.out = << >>, !.storeOut = << >>]
     IN Commit(n, sendDirect(s, conns, n, peerId, id, "image", throws), conns)
  /\ ev' = [Event(n, "sendDirectImage", "image", FALSE)
              EXCEPT !.peer = peerId, !.id = id, !.threw = throws]
  /\ UNCHANGED hosted

\* sendDirectAudio(peerId, b64, id)
sendDirectAudio(n, peerId, id, throws) ==
  /\ n \in hosted /\ peerId # n
  /\ throws => LiveEligible(node[n], conns, n, peerId)
  /\ LET s == [node[n] EXCEPT !.out = << >>, !.storeOut = << >>]
     IN Commit(n, sendDirect(s, conns, n, peerId, id, "audio", throws), conns)
  /\ ev' = [Event(n, "sendDirectAudio", "audio", FALSE)
              EXCEPT !.peer = peerId, !.id = id, !.threw = throws]
  /\ UNCHANGED hosted

\* --------------------------------------------------- offline reconciliation
\* Mutant of processOfflineMessage: the id is not looked up before processing
processOfflineMessage_NoCheck(s, msg) ==
  [s EXCEPT !.processedMessageIds = @ \cup {msg.id},
            !.directEvents = Append(@, [peerId |-> msg.from, id |-> msg.id, via |-> "store"]),
            !.markedRead = Append(@, msg.id)]

\* processOfflineMessage(msg): the row msg of the durable store
processOfflineMessage(s, msg) ==
  IF msg.id \in s.processedMessageIds THEN s
  ELSE [s EXCEPT !.processedMessageIds = @ \cup {msg.id},
                 !.directEvents = Append(@, [peerId |-> msg.from, id |-> msg.id, via |-> "store"]),
                 !.markedRead = Append(@, msg.id)]

\* checkOffline(), by the initial call or by the 5 s interval: fetchOfflineMessages
\* resolves with rows, and the loop over them starts
checkOffline(n, rows) ==
  /\ n \in hosted
  /\ node[n].myPeerId # Null
  /\ rows # << >>
  /\ Len(node[n].polls) < MaxPolls
  /\ node' = [node EXCEPT ![n] = [@ EXCEPT !.out = << >>, !.polls = Append(@, rows)]]
  /\ ev' = NoEvent
  /\ UNCHANGED <<hosted, conns>>

\* One turn of the loop of the checkOffline run t: processOfflineMessage(msg),
\* then the 100 ms delay
checkOfflineStep(n, t) ==
  /\ n \in hosted
  /\ t \in 1..Len(node[n].polls)
  /\ LET rows == node[n].polls[t]
         s == processOfflineMessage([node[n] EXCEPT !.out = << >>], Head(rows))
         rest == IF Len(rows) = 1
                 THEN SubSeq(s.polls, 1, t - 1) \o SubSeq(s.polls, t + 1, Len(s.polls))
                 ELSE [s.polls EXCEPT ![t] = Tail(rows)]
     IN /\ node' = [node EXCEPT ![n] = [s EXCEPT !.polls = rest]]
        /\ ev' = [Event(n, "offline", "poll", FALSE)
                    EXCEPT !.id = Head(rows).id,
                           !.dup = Head(rows).id \in node[n].processedMessageIds]
  /\ UNCHANGED <<hosted, conns>>

\* The realtime INSERT subscription on direct_messages: processOfflineMessage(payload.new)
realtimeInsert(n, msg) ==
  /\ n \in hosted
  /\ node[n].myPeerId # Null
  /\ node' = [node EXCEPT ![n] = processOfflineMessage([@ EXCEPT !.out = << >>], msg)]
  /\ ev' = [Event(n, "offline", "insert", FALSE)
              EXCEPT !.id = msg.id, !.dup = msg.id \in node[n].processedMessageIds]
  /\ UNCHANGED <<hosted, conns>>

\* ------------------------------------------------------------- global chat
\* setTimeout(() => loadHistory(attempt + 1), 2000)
RetryDelay == 2000

\* if (attempt < 3 && mounted)
HistoryAttempts == 3

\* prev.some(m => m.id === id)
HasId(msgs, id) == \E i \in 1..Len(msgs) : msgs[i].id = id

\* m goes behind the messages that are no later than it
RECURSIVE InsertByTimestamp(_, _)
InsertByTimestamp(sorted, m) ==
  IF sorted = << >> THEN <<m>>
  ELSE IF Head(sorted).timestamp <= m.timestamp
       THEN <<Head(sorted)>> \o InsertByTimestamp(Tail(sorted), m)
       ELSE <<m>> \o sorted

\* .sort((a, b) => a.timestamp - b.timestamp), a stable sort
RECURSIVE SortByTimestamp(_)
SortByTimestamp(msgs) ==
  IF msgs = << >> THEN << >>
  ELSE InsertByTimestamp(SortByTimestamp(SubSeq(msgs, 1, Len(msgs) - 1)), msgs[Len(msgs)])

\* Mutant of mergeHistory: the fetched history replaces the list
mergeHistory_Replace(prev, history) == history

\* The functional update of loadHistory: the history, then the messages of
\* prev whose id the history does not have, sorted by timestamp
mergeHistory(prev, history) ==
  SortByTimestamp(history \o SelectSeq(prev, LAMBDA m : ~HasId(history, m.id)))

\* Mutant of onGlobalInsert: the row is appended without the lookup
onGlobalInsert_NoDedup(prev, newMessage) == Append(prev, newMessage)

\* The functional update of the realtime INSERT callback
onGlobalInsert(prev, newMessage) ==
  IF HasId(prev, newMessage.id) THEN prev ELSE Append(prev, newMessage)

\* `mounted` of run e of the history effect
Mounted(s, e) == s.globalMounted /\ e = s.historyEffect

\* The rows of the store, oldest first, as fetchRecentGlobalMessages returns them
RECURSIVE RowsOf(_)
RowsOf(rows) ==
  IF rows = {} THEN << >>
  ELSE LET r == CHOOSE r \in rows : \A q \in rows : r.timestamp <= q.timestamp
       IN <<r>> \o RowsOf(rows \ {r})

\* The ids that the store, the pending sends and the pending events hold
KnownIds(s) ==
  {r.id : r \in s.globalRows} \cup {r.id : r \in s.globalOutbox} \cup {r.id : r \in s.globalInserts}

\* Mutant of historyCleanup: the pending timer is not cleared
historyCleanup_NoClear(s) == s

\* The cleanup of the history effect: mounted = false;
\* if (retryTimeoutRef.current) clearTimeout(retryTimeoutRef.current)
historyCleanup(s) == [s EXCEPT !.retryTimers = @ \ s.retryTimeoutRef]

\* loadHistory(attempt) of run e starts its fetch
loadHistory(s, e, attempt) ==
  [s EXCEPT !.historyFetches =
              @ \cup {[effect |-> e, attempt |-> attempt, read |-> FALSE, history |-> << >>]},
            !.historyStarted[e] = @ + 1]

\* The myPeerId given to useGlobalChat changed: the cleanups of both effects
\* run, then the effects: a new loadHistory() and a new realtime channel
GlobalPeerIdChange(n) ==
  /\ n \in hosted
  /\ node[n].globalMounted /\ node[n].globalPeerId # node[n].myPeerId
  /\ LET s == historyCleanup([node[n] EXCEPT !.out = << >>])
         e == s.historyEffect + 1
     IN node' = [node EXCEPT ![n] =
          loadHistory([s EXCEPT !.historyEffect = e, !.historyStarted = Append(@, 0),
                                !.globalPeerId = s.myPeerId, !.globalInserts = {}], e, 1)]
  /\ ev' = Event(n, "globalEffects", "none", FALSE)
  /\ UNCHANGED <<hosted, conns>>

\* useGlobalChat is unmounted: the cleanups of both effects run
GlobalUnmount(n) ==
  /\ n \in hosted
  /\ node[n].globalMounted
  /\ node' = [node EXCEPT ![n] =
        [historyCleanup([@ EXCEPT !.out = << >>])
           EXCEPT !.globalMounted = FALSE, !.globalInserts = {}]]
  /\ ev' = Event(n, "globalUnmount", "none", FALSE)
  /\ UNCHANGED <<hosted, conns>>

\* The store runs the query of the fetch f
HistoryQuery(n, f) ==
  /\ n \in hosted
  /\ f \in node[n].historyFetches /\ ~f.read
  /\ node' = [node EXCEPT ![n] =
        [@ EXCEPT !.out = << >>,
                  !.historyFetches =
                     (@ \ {f}) \cup {[f EXCEPT !.read = TRUE, !.history = RowsOf(node[n].globalRows)]}]]
  /\ ev' = NoEvent
  /\ UNCHANGED <<hosted, conns>>

\* await fetchRecentGlobalMessages() resolves in loadHistory
HistoryResolve(n, f) ==
  /\ n \in hosted
  /\ f \in node[n].historyFetches /\ f.read
  /\ LET s == [node[n] EXCEPT !.out = << >>, !.historyFetches = @ \ {f}]
     IN node' = [node EXCEPT ![n] =
          IF Mounted(s, f.effect) /\ Len(f.history) > 0
          THEN [s EXCEPT !.globalMessages = mergeHistory(@, f.history)]
          ELSE s]
  /\ ev' = [Event(n, "historyLoaded",
                  IF Mounted(node[n], f.effect) /\ Len(f.history) > 0 THEN "merged" ELSE "none",
                  FALSE)
              EXCEPT !.c = f.attempt,
                     !.dup = \E i \in 1..Len(node[n].globalMessages) :
                                HasId(f.history, node[n].globalMessages[i].id)]
  /\ UNCHANGED <<hosted, conns>>

\* await fetchRecentGlobalMessages() rejects in loadHistory: the catch block
HistoryFail(n, f) ==
  /\ n \in hosted
  /\ f \in node[n].historyFetches
  /\ LET s == [node[n] EXCEPT !.out = << >>, !.historyFetches = @ \ {f}]
         timer == [effect |-> f.effect, attempt |-> f.attempt + 1, delay |-> RetryDelay]
     IN node' = [node EXCEPT ![n] =
          IF f.attempt < HistoryAttempts /\ Mounted(s, f.effect)
          THEN [s EXCEPT !.retryTimers = @ \cup {timer}, !.retryTimeoutRef = {timer}]
          ELSE s]
  /\ ev' = [Event(n, "historyFail", "none", FALSE) EXCEPT !.c = f.attempt]
  /\ UNCHANGED <<hosted, conns>>

\* A retry timer of loadHistory fires: loadHistory(attempt + 1)
RetryTimer(n, timer) ==
  /\ n \in hosted
  /\ timer \in node[n].retryTimers
  /\ node' = [node EXCEPT ![n] =
        loadHistory([@ EXCEPT !.out = << >>, !.retryTimers = @ \ {timer}],
                    timer.effect, timer.attempt)]
  /\ ev' = [Event(n, "historyRetry", "none", FALSE) EXCEPT !.c = timer.attempt]
  /\ UNCHANGED <<hosted, conns>>

\* sendGlobalMessage(text): the optimistic update; id is Date.now().toString() +
\* Math.random().toString(), an id that no message has; ts is Date.now()
sendGlobalMessage(n, id, ts) ==
  /\ n \in hosted
  /\ node[n].globalMounted
  /\ ~HasId(node[n].globalMessages, id) /\ id \notin KnownIds(node[n])
  /\ LET newMessage == [id |-> id, timestamp |-> ts]
     IN node' = [node EXCEPT ![n] =
          [@ EXCEPT !.out = << >>, !.globalMessages = Append(@, newMessage),
                    !.globalOutbox = @ \cup {newMessage}]]
  /\ ev' = [Event(n, "sendGlobalMessage", "none", FALSE) EXCEPT !.id = id]
  /\ UNCHANGED <<hosted, conns>>

\* await sendPersistentGlobalMessage(newMessage) of sendGlobalMessage settles:
\* the row is inserted with message_id newMessage.id and time created_at, and
\* the realtime event of the insert is on its way, or the write failed
PersistGlobal(n, m, created_at, ok) ==
  /\ n \in hosted
  /\ m \in node[n].globalOutbox
  /\ LET s == [node[n] EXCEPT !.out = << >>, !.globalOutbox = @ \ {m}]
         row == [id |-> m.id, timestamp |-> created_at]
     IN node' = [node EXCEPT ![n] =
          IF ok
          THEN [s EXCEPT !.globalRows = @ \cup {row},
                         !.globalInserts = IF s.globalMounted THEN @ \cup {row} ELSE @]
          ELSE s]
  /\ ev' = NoEvent
  /\ UNCHANGED <<hosted, conns>>

\* Another user's message is inserted into global_messages
EnvGlobalInsert(n, row) ==
  /\ n \in hosted
  /\ row.id \notin KnownIds(node[n]) /\ ~HasId(node[n].globalMessages, row.id)
  /\ node' = [node EXCEPT ![n] =
        [@ EXCEPT !.out = << >>, !.globalRows = @ \cup {row},
                  !.globalInserts = IF node[n].globalMounted THEN @ \cup {row} ELSE @]]
  /\ ev' = NoEvent
  /\ UNCHANGED <<hosted, conns>>

\* The realtime INSERT callback of useGlobalChat runs for row
globalInsert(n, row) ==
  /\ n \in hosted
  /\ row \in node[n].globalInserts
  /\ node' = [node EXCEPT ![n] =
        [@ EXCEPT !.out = << >>, !.globalInserts = @ \ {row},
                  !.globalMessages = onGlobalInsert(@, row)]]
  /\ ev' = [Event(n, "globalInsert", "none", FALSE)
              EXCEPT !.id = row.id, !.dup = HasId(node[n].globalMessages, row.id)]
  /\ UNCHANGED <<hosted, conns>>

\* -------------------------------------------------------------- environment
\* The least timestamp
T0 == CHOOSE t \in Times : \A u \in Times : t <= u

\* The presence snapshots of the lobby with one remote peer, Y
LobbySnapshots ==
  {<< >>, <<[peerId |-> "Y", status |-> "waiting", timestamp |-> T0]>>,
   <<[peerId |-> "Y", status |-> "idle", timestamp |-> T0]>>}

\* The presence entries of Y and Z, and the snapshots of a lobby with them:
\* lists of entries of distinct identities, after the entry of X itself
\* (waiting since the least timestamp) or without it
LobbyEntries == [peerId : {"Y", "Z"}, status : {"waiting", "busy"}, timestamp : Times]

OthersSnapshots ==
  {<< >>} \cup {<<e>> : e \in LobbyEntries}
  \cup {p \in LobbyEntries \X LobbyEntries : p[1].peerId # p[2].peerId}

ScanSnapshots ==
  OthersSnapshots
  \cup {<<[peerId |-> "X", status |-> "waiting", timestamp |-> T0]>> \o p : p \in OthersSnapshots}

\* The frames a remote peer may send on the main connection
MainFrames ==
  {Frame("disconnect", "none", "none"), Frame("typing", "true", "none"),
   Frame("recording", "true", "none"), Frame("vanish_mode", "true", "none"),
   Frame("profile", "stranger", "none")}

\* The ids that sendMessage generates at X
LocalIds == {"s1", "s2"}

\* The ids of direct messages, and the rows of the durable store addressed to X
MessageIds == {"m1", "m2"}
Rows == [from : {"Y"}, id : MessageIds]
RowBatches == {<<r>> : r \in Rows} \cup {p \in Rows \X Rows : p[1].id # p[2].id}

InitHost(h) ==
  /\ hosted = h
  /\ node = [n \in Identities |-> InitNode]
  /\ conns = << >>
  /\ ev = NoEvent

\* presence 'sync' at a hosted node in a lobby of hosted nodes: the entries of
\* the other nodes that have tracked a status (the node's own entry is left
\* out: the hook reads onlineUsers only for other identities)
RECURSIVE Directory(_, _)
Directory(n, rest) ==
  IF rest = {} THEN << >>
  ELSE LET m == CHOOSE m \in rest : TRUE
           tail == Directory(n, rest \ {m})
       IN IF m # n /\ node[m].tracked # "none"
          THEN <<[peerId |-> m, status |-> node[m].tracked, timestamp |-> T0]>> \o tail
          ELSE tail

\* ----------------------------------------------------------- specifications
\* A specification creates a connection only while fewer than its bound exist.
Fewer(k) == Len(conns) < k

\* One hosted node, X, in a lobby with the remote peer Y: matchmaking, the
\* main slot and the timers.
Init == InitHost({"X"})

Next ==
  \/ PeerOpen("X")
  \/ Subscribed("X")
  \/ \E snap \in LobbySnapshots : PresenceSync("X", snap)
  \/ connect("X")
  \/ disconnect("X")
  \/ Fewer(MaxConns) /\ ScanTick("X")
  \/ ConnectionTimeout("X")
  \/ CloseTimer("X")
  \/ Fewer(MaxConns) /\ EnvConnect("Y", "X", "random")
  \/ \E c \in ConnIds : OpenEvent(c, "X")
  \/ \E c \in ConnIds : CloseEvent(c, "X")
  \/ \E c \in ConnIds : ErrorEvent(c, "X")
  \/ \E c \in ConnIds : EnvFrame(c, "X", Frame("disconnect", "none", "none"))

Spec == Init /\ [][Next]_vars

\* X and the remote peers Y and Z: the registry of main and direct connections.
NextRegistry ==
  \/ PeerOpen("X")
  \/ disconnect("X")
  \/ CloseTimer("X")
  \/ \E p \in {"Y", "Z"} : Fewer(MaxLinks) /\ callPeer("X", p)
  \/ \E p \in {"Y", "Z"}, kind \in {"random", "direct"} :
        Fewer(MaxLinks) /\ EnvConnect(p, "X", kind)
  \/ \E c \in ConnIds : OpenEvent(c, "X")
  \/ \E c \in ConnIds : CloseEvent(c, "X")
  \/ \E c \in ConnIds : ErrorEvent(c, "X")
  \/ \E c \in ConnIds : EnvFrame(c, "X", Frame("disconnect", "none", "none"))

SpecRegistry == Init /\ [][NextRegistry]_vars

\* X matched with the remote peer Y: the frames of the main connection and the
\* ways out of a conversation.
NextMain ==
  \/ PeerOpen("X")
  \/ Subscribed("X")
  \/ \E snap \in LobbySnapshots : PresenceSync("X", snap)
  \/ connect("X")
  \/ disconnect("X")
  \/ Fewer(MaxLinks) /\ ScanTick("X")
  \/ ConnectionTimeout("X")
  \/ CloseTimer("X")
  \/ Fewer(MaxLinks) /\ EnvConnect("Y", "X", "random")
  \/ \E c \in ConnIds : OpenEvent(c, "X")
  \/ \E c \in ConnIds : CloseEvent(c, "X")
  \/ \E c \in ConnIds, f \in MainFrames : EnvFrame(c, "X", f)

SpecMain == Init /\ [][NextMain]_vars

\* X and its direct connection to Y: the two paths of an outgoing direct message.
NextDirect ==
  \/ PeerOpen("X")
  \/ \E snap \in LobbySnapshots : PresenceSync("X", snap)
  \/ Fewer(MaxLinks) /\ callPeer("X", "Y")
  \/ Fewer(MaxLinks) /\ EnvConnect("Y", "X", "direct")
  \/ \E c \in ConnIds : OpenEvent(c, "X")
  \/ \E c \in ConnIds : CloseEvent(c, "X")
  \/ \E id \in MessageIds, throws \in BOOLEAN : sendDirectMessage("X", "Y", id, throws)
  \/ \E id \in MessageIds, throws \in BOOLEAN : sendDirectImage("X", "Y", id, throws)
  \/ \E id \in MessageIds, throws \in BOOLEAN : sendDirectAudio("X", "Y", id, throws)

SpecDirect == Init /\ [][NextDirect]_vars

\* X receiving direct messages from Y over one live connection and from the
\* durable store (initial drain, 5 s poll, realtime insert).
NextInbound ==
  \/ PeerOpen("X")
  \/ conns = << >> /\ EnvConnect("Y", "X", "direct")
  \/ \E c \in ConnIds : OpenEvent(c, "X")
  \/ \E c \in ConnIds, id \in MessageIds : EnvFrame(c, "X", Frame("message", "text", id))
  \/ \E rows \in RowBatches : checkOffline("X", rows)
  \/ \E t \in 1..MaxPolls : checkOfflineStep("X", t)
  \/ \E r \in Rows : realtimeInsert("X", r)

SpecInbound == Init /\ [][NextInbound]_vars

\* The hook mounts with the friend list that localStorage holds
InitFriends ==
  /\ hosted = {"X"}
  /\ \E f \in {<< >>, <<[peerId |-> "Y"]>>} :
        node = [n \in Identities |-> [InitNode EXCEPT !.friends = f, !.chat_friends = f]]
  /\ conns = << >>
  /\ ev = NoEvent

\* X receiving friend requests and acceptances from Y and Z, on the main
\* connection and on direct ones, accepting and rejecting them.
NextFriends ==
  \/ PeerOpen("X")
  \/ Fewer(MaxLinks) /\ \E p \in {"Y", "Z"}, kind \in {"random", "direct"} : EnvConnect(p, "X", kind)
  \/ \E c \in ConnIds : OpenEvent(c, "X")
  \/ \E c \in ConnIds : TempOpen(c, "X")
  \/ \E c \in ConnIds : EnvFrame(c, "X", Frame("friend_request", "profile", "none"))
  \/ \E c \in ConnIds : EnvFrame(c, "X", Frame("friend_accept", "profile", "none"))
  \/ \E req \in {Null, "Y", "Z"} : acceptFriendRequest("X", req)
  \/ \E p \in {"Y", "Z"} : rejectFriendRequest("X", p)
  \/ \E p \in {"Y", "Z"} : removeFriend("X", p)

SpecFriends == InitFriends /\ [][NextFriends]_vars

\* X searching in a lobby whose snapshots hold X itself, Y and Z with any
\* status and timestamp, changing between the attempts; attempts fail, so that
\* the scan goes on.
NextScan ==
  \/ PeerOpen("X")
  \/ node["X"].mainConnRef = NoConn /\ \E snapshot \in ScanSnapshots : PresenceSync("X", snapshot)
  \/ connect("X")
  \/ Fewer(MaxLinks) /\ ScanTick("X")
  \/ ScanTickIdle("X")
  \/ ConnectionTimeout("X")
  \/ \E c \in ConnIds : ErrorEvent(c, "X")

SpecScan == Init /\ [][NextScan]_vars

\* X in a conversation with Y on the main connection, and with a direct
\* connection from Z: messages sent and received, and their acknowledgments.
NextChat ==
  \/ PeerOpen("X")
  \/ conns = << >> /\ EnvConnect("Y", "X", "random")
  \/ Len(conns) = 1 /\ EnvConnect("Z", "X", "direct")
  \/ \E c \in ConnIds : OpenEvent(c, "X")
  \/ \E id \in LocalIds : sendMessage("X", id)
  \/ \E c \in ConnIds, id \in LocalIds : EnvFrame(c, "X", Frame("seen", "none", id))
  \/ \E c \in ConnIds, id \in MessageIds : EnvFrame(c, "X", Frame("message", "text", id))

SpecChat == Init /\ [][NextChat]_vars

\* X opening its transport handle, with the preferred identity or, when that
\* is taken, with the handle of the 'unavailable-id' branch; Y connects to it.
NextIdentity ==
  \/ PeerOpen("X")
  \/ PeerIdTaken("X")
  \/ FallbackOpen("X")
  \/ Fewer(MaxLinks) /\ \E kind \in {"random", "direct"} : FallbackConnection("Y", "X", kind)
  \/ Fewer(MaxLinks) /\ \E kind \in {"random", "direct"} : EnvConnect("Y", "X", kind)
  \/ \E c \in ConnIds : OpenEvent(c, "X")
  \/ \E c \in ConnIds : CloseEvent(c, "X")
  \/ \E snapshot \in LobbySnapshots : PresenceSync("X", snapshot)
  \/ connect("X")

SpecIdentity == Init /\ [][NextIdentity]_vars

\* The ids of the global messages of X and of the other users, and the rows
\* the other users insert
GlobalLocalIds == {"o1"}
GlobalIds == {"g1", "g2"}
GlobalRows == [id : GlobalIds, timestamp : Times]

\* X loading the history of the global chat while the store fails or answers:
\* the retries, the change of myPeerId and the unmount.
NextHistory ==
  \/ PeerOpen("X")
  \/ GlobalPeerIdChange("X")
  \/ GlobalUnmount("X")
  \/ \E f \in node["X"].historyFetches : HistoryQuery("X", f)
  \/ \E f \in node["X"].historyFetches : HistoryResolve("X", f)
  \/ \E f \in node["X"].historyFetches : HistoryFail("X", f)
  \/ \E timer \in node["X"].retryTimers : RetryTimer("X", timer)
  \/ EnvGlobalInsert("X", [id |-> "g1", timestamp |-> T0])
  \/ \E row \in node["X"].globalInserts : globalInsert("X", row)

SpecHistory == Init /\ [][NextHistory]_vars

\* X in the global chat: the history loads of the mount and of the change of
\* myPeerId, the realtime inserts and the optimistic sends.
NextGlobal ==
  \/ PeerOpen("X")
  \/ GlobalPeerIdChange("X")
  \/ \E f \in node["X"].historyFetches : HistoryQuery("X", f)
  \/ \E f \in node["X"].historyFetches : HistoryResolve("X", f)
  \/ \E id \in GlobalLocalIds, ts \in Times : sendGlobalMessage("X", id, ts)
  \/ \E m \in node["X"].globalOutbox, ts \in Times, ok \in BOOLEAN : PersistGlobal("X", m, ts, ok)
  \/ \E row \in GlobalRows : EnvGlobalInsert("X", row)
  \/ \E row \in node["X"].globalInserts : globalInsert("X", row)

SpecGlobal == Init /\ [][NextGlobal]_vars

\* Two hosted nodes, X and Y, in the same lobby, searching for a match.
InitPair == InitHost({"X", "Y"})

NextPair ==
  \/ \E n \in {"X", "Y"} : PeerOpen(n)
  \/ \E n \in {"X", "Y"} : PresenceSync(n, Directory(n, hosted))
  \/ \E n \in {"X", "Y"} : connect(n)
  \/ \E n \in {"X", "Y"} : Fewer(MaxLinks) /\ ScanTick(n)
  \/ \E n \in {"X", "Y"} : ConnectionTimeout(n)
  \/ \E c \in ConnIds : Deliver(c)
  \/ \E c \in ConnIds, n \in {"X", "Y"} : OpenEvent(c, n)
  \/ \E c \in ConnIds, n \in {"X", "Y"} : DeliverFrame(c, n)

SpecPair == InitPair /\ [][NextPair]_vars

\* X and Y searching in the same lobby, each started once, and then in
\* conversation: X sends a message on its main connection.
NextRace ==
  \/ \E n \in {"X", "Y"} : PeerOpen(n)
  \/ \E n \in {"X", "Y"} : PresenceSync(n, Directory(n, hosted))
  \/ \E n \in {"X", "Y"} : node[n].status = IDLE /\ connect(n)
  \/ \E n \in {"X", "Y"} : Fewer(MaxLinks) /\ ScanTick(n)
  \/ \E c \in ConnIds : Deliver(c)
  \/ \E c \in ConnIds, n \in {"X", "Y"} : OpenEvent(c, n)
  \/ \E c \in ConnIds, n \in {"X", "Y"} : DeliverFrame(c, n)
  \/ sendMessage("X", "s1")

SpecRace == InitPair /\ [][NextRace]_vars

\* X calling connect() and disconnect() before and after its identity and its
\* presence channel are ready (or never, when the preferred identity is
\* taken), with one inbound match from Y.
NextReady ==
  \/ PeerOpen("X")
  \/ PeerIdTaken("X")
  \/ Subscribed("X")
  \/ \E snapshot \in LobbySnapshots : PresenceSync("X", snapshot)
  \/ connect("X")
  \/ disconnect("X")
  \/ CloseTimer("X")
  \/ conns = << >> /\ EnvConnect("Y", "X", "random")
  \/ \E c \in ConnIds : OpenEvent(c, "X")

SpecReady == Init /\ [][NextReady]_vars

\* ------------------------------------------------------------------ claims
\* The outbound matchmaking attempts of n that are in flight: connections it
\* opened with role main whose transport has neither opened nor ended
AttemptsInFlight(n) ==
  {c \in Used : conns[c].src = n /\ conns[c].kind = "random" /\ conns[c].srcSt = "connecting"}

\* C1: the Matchmaker never has more than one outbound matchmaking (role
\* main) connection attempt in flight at the same time.
C1_OneAttemptInFlight == \A n \in hosted : Cardinality(AttemptsInFlight(n)) <= 1

DirectSendOps == {"sendDirectMessage", "sendDirectImage", "sendDirectAudio"}

\* C2: when the target of sendDirectMessage, sendDirectImage or sendDirectAudio
\* is absent from the presence list, the call passes no frame to the live
\* transport's send.
C2_AbsentTargetNeverLive ==
  (ev.op \in DirectSendOps /\ ~isOnline(node[ev.n], ev.peer)) => node[ev.n].out = << >>

\* C2 happens: a direct send to a target absent from presence while the direct
\* map holds an open connection to it; the message went to the durable store.
C2_Witness ==
  /\ ev.op \in DirectSendOps
  /\ ~isOnline(node[ev.n], ev.peer)
  /\ IsOpen(conns, MapGet(node[ev.n].directConnsRef, ev.peer), ev.n)
  /\ Len(node[ev.n].storeOut) = 1

\* C3: whenever sendDirectMessage is called for a target absent from the
\* presence list, the store's send is invoked exactly once for that message,
\* in every reachable state (also before the local identity is resolved).
C3_AbsentTargetAlwaysPersisted ==
  (ev.op = "sendDirectMessage" /\ ~isOnline(node[ev.n], ev.peer))
    => /\ Len(node[ev.n].storeOut) = 1
       /\ node[ev.n].storeOut[1].id = ev.id

\* The direct-message events of n for message id, all of them and by path
EventsFor(n, id) == {i \in 1..Len(node[n].directEvents) : node[n].directEvents[i].id = id}

EventsVia(n, id, via) == {i \in EventsFor(n, id) : node[n].directEvents[i].via = via}

MarksFor(n, id) == {i \in 1..Len(node[n].markedRead) : node[n].markedRead[i] = id}

\* C4: a message id delivered once as a `message` frame on a live direct
\* connection and surfaced by the durable store produces exactly one
\* direct-conversation event.
C4_OneEventAcrossPaths ==
  \A n \in hosted, id \in MessageIds :
    Cardinality(EventsVia(n, id, "live")) <= 1 => Cardinality(EventsFor(n, id)) <= 1

\* C5: however the initial drain, the 5 s poll and the realtime insert
\* subscription interleave, a persisted message id produces at most one
\* conversation event and at most one markMessageAsRead call, and it is in
\* processedMessageIds when it does.
C5_StoreDeliveryOnce ==
  \A n \in hosted, id \in MessageIds :
    /\ Cardinality(EventsVia(n, id, "store")) <= 1
    /\ Cardinality(MarksFor(n, id)) <= 1
    /\ (EventsVia(n, id, "store") # {} \/ MarksFor(n, id) # {})
          => id \in node[n].processedMessageIds

\* C5 happens: the store surfaced an id that had been processed already, while
\* another checkOffline run is still draining
C5_Witness ==
  /\ ev.op = "offline" /\ ev.dup
  /\ Cardinality(EventsVia(ev.n, ev.id, "store")) = 1
  /\ node[ev.n].polls # << >>

\* C6: with the local identity resolved, every direct message is handed to
\* exactly one path: to the live connection only if the target is in the
\* presence list and the direct map holds an open connection to it and the send
\* does not throw, to the durable store otherwise.
C6_ExactlyOnePath ==
  (ev.op \in DirectSendOps /\ node[ev.n].myPeerId # Null) =>
    LET s == node[ev.n]
    IN /\ Len(s.out) + Len(s.storeOut) = 1
       /\ Len(s.out) = 1 =>
            /\ isOnline(s, ev.peer) /\ ~ev.threw
            /\ <<ev.peer, s.out[1].c>> \in s.directConnsRef
            /\ IsOpen(conns, s.out[1].c, ev.n)
            /\ s.out[1].frame.type = "message" /\ s.out[1].frame.id = ev.id
       /\ Len(s.storeOut) = 1 => (s.storeOut[1].to = ev.peer /\ s.storeOut[1].id = ev.id)

\* C6 happens: the live send threw and the message was persisted instead
C6_Witness == ev.op \in DirectSendOps /\ ev.threw /\ Len(node[ev.n].storeOut) = 1

\* C7: the registry holds at most one main connection and at most one direct
\* connection per remote identity.
C7_RegistryCardinality ==
  \A n \in hosted :
    /\ node[n].mainConnRef \in {NoConn} \cup Used
    /\ \A e, f \in node[n].directConnsRef : e[1] = f[1] => e = f
    /\ \A e \in node[n].directConnsRef : e[2] \in Used

\* C7 happens: a direct connection registered for an identity whose earlier
\* direct connection is still up: the entry holds the later one
C7_Witness ==
  \E n \in hosted :
    \E e \in node[n].directConnsRef, d \in Used :
      /\ d < e[2] /\ conns[d].kind = "direct" /\ PeerOf(conns, d, n) = e[1]
      /\ EndSt(conns, d, n) \in {"connecting", "open"}

\* Scenario A at connection c: X's scan tick connected to the waiting Y, and
\* Y has initiated no connection
ScenarioA(c) ==
  /\ conns[c].kind = "random" /\ conns[c].src = "X" /\ conns[c].dst = "Y"
  /\ \A d \in Used : conns[d].src # "Y"

\* C8: in Scenario A the main slot of X holds the connection to Y, and Y is
\* Connected when the inbound connection opens, having initiated nothing.
C8_ScenarioA ==
  \A c \in Used :
    ScenarioA(c) =>
      /\ node["X"].mainConnRef = c /\ PeerOf(conns, c, "X") = "Y"
      /\ (ev.op = "open" /\ ev.n = "Y" /\ conns[c].dstSt = "open") =>
           (node["Y"].status = CONNECTED /\ node["Y"].mainConnRef = c)

\* C8 happens: both were waiting, X connected first, the connection opened at Y
C8_Witness ==
  \E c \in Used :
    /\ ScenarioA(c) /\ ev.op = "open" /\ ev.n = "Y" /\ conns[c].dstSt = "open"
    /\ ev.was = SEARCHING
    /\ node["Y"].status = CONNECTED /\ node["X"].mainConnRef = c

\* C9: a `disconnect` frame on the main connection while Connected clears the
\* conversation, clears the partner identity and republishes presence idle.
C9_DisconnectFrame ==
  (ev.op = "data" /\ ev.frame = "disconnect" /\ ev.isMain /\ ev.was = CONNECTED) =>
    /\ node[ev.n].messages = << >>
    /\ node[ev.n].partnerPeerId = Null
    /\ node[ev.n].tracked = "idle"

\* C10: every transition into Disconnected (of a node whose presence channel
\* is ready) republishes presence idle and leaves typing, recording,
\* remoteVanishMode and the partner profile cleared.
C10_DisconnectedIsClean ==
  [][\A n \in hosted :
       (node[n].status # DISCONNECTED /\ node'[n].status = DISCONNECTED /\ node[n].channelRef)
         => /\ node'[n].tracked = "idle"
            /\ ~node'[n].partnerTyping /\ ~node'[n].partnerRecording
            /\ node'[n].remoteVanishMode = Null
            /\ node'[n].partnerProfile = Null]_vars

\* C11: when the preferred identity is taken, the open of the replacement
\* handle is observed (the local identity becomes non-null), and the inbound
\* connections on the replacement handle are given to setupConnection.
C11_IdentityFailover ==
  \A n \in hosted :
    (node[n].peerRef = "fallback" /\ node[n].peerOpen) =>
      /\ node[n].myPeerId # Null
      /\ \A c \in Used : conns[c].dst = n => conns[c].dstSt # "unhandled"

\* C12: a `seen` frame on the main connection carrying the id of a message
\* sent with sendMessage sets that message's status to seen and leaves every
\* other message of the conversation, and the order, as they were.
C12_SeenRoundTrip ==
  [][\A n \in hosted :
       (/\ ev'.op = "data" /\ ev'.frame = "seen" /\ ev'.isMain /\ ev'.n = n
        /\ \E i \in 1..Len(node[n].messages) :
              node[n].messages[i].id = ev'.id /\ node[n].messages[i].sender = "me")
       => /\ Len(node'[n].messages) = Len(node[n].messages)
          /\ \A i \in 1..Len(node[n].messages) :
                node'[n].messages[i] =
                  IF node[n].messages[i].id = ev'.id
                  THEN [node[n].messages[i] EXCEPT !.status = "seen"]
                  ELSE node[n].messages[i]]_vars

\* C12 happens: the acknowledged message is seen while another sent message
\* and a received one keep status sent
C12_Witness ==
  /\ ev.op = "data" /\ ev.frame = "seen" /\ ev.isMain
  /\ LET msgs == node[ev.n].messages
     IN \E i, j \in 1..Len(msgs) :
          /\ msgs[i].id = ev.id /\ msgs[i].sender = "me" /\ msgs[i].status = "seen"
          /\ msgs[j].id # ev.id /\ msgs[j].sender = "me" /\ msgs[j].status = "sent"
          /\ msgs[1] = INITIAL_GREETING

\* C13: every inbound `message` frame, on the main connection or on a direct
\* one, makes the handler send exactly one frame: `seen` with the id of the
\* message, on the connection the message arrived on.
C13_MessageAcknowledged ==
  (ev.op = "data" /\ ev.frame = "message") =>
    node[ev.n].out = <<[c |-> ev.c, frame |-> Frame("seen", "none", ev.id)]>>

\* C13 happens: a message was acknowledged on a direct connection while the
\* main connection is open
C13_Witness ==
  /\ ev.op = "data" /\ ev.frame = "message" /\ ~ev.isMain
  /\ node[ev.n].mainConnRef # NoConn /\ IsOpen(conns, node[ev.n].mainConnRef, ev.n)
  /\ Len(node[ev.n].out) = 1 /\ node[ev.n].out[1].c = ev.c

\* C14: a `friend_request` frame from an identity that is in the friend set
\* leaves the pending friend-request list unchanged.
C14_FriendRequestFromFriend ==
  [][\A n \in hosted :
       (/\ ev'.op = "data" /\ ev'.frame = "friend_request" /\ ev'.n = n
        /\ HasPeer(node[n].friends, PeerOf(conns, ev'.c, n)))
       => node'[n].friendRequests = node[n].friendRequests]_vars

\* C14 happens: a friend request arrived from a friend while the request of
\* another identity is pending
C14_Witness ==
  /\ ev.op = "data" /\ ev.frame = "friend_request"
  /\ HasPeer(node[ev.n].friends, PeerOf(conns, ev.c, ev.n))
  /\ node[ev.n].friendRequests # << >>
  /\ ~HasPeer(node[ev.n].friendRequests, PeerOf(conns, ev.c, ev.n))

\* C15: the pending friend-request list holds at most one entry per remote
\* identity.
C15_OnePendingPerIdentity ==
  \A n \in hosted :
    \A i, j \in 1..Len(node[n].friendRequests) :
      node[n].friendRequests[i].peerId = node[n].friendRequests[j].peerId => i = j

\* C15 happens: a second friend request of an identity arrived while its
\* first one was pending
C15_Witness ==
  /\ ev.op = "data" /\ ev.frame = "friend_request"
  /\ ev.dup
  /\ HasPeer(node[ev.n].friendRequests, PeerOf(conns, ev.c, ev.n))

\* C16: isPeerConnected(identity) is true exactly when a direct connection to
\* that identity is registered and its transport is open.
C16_IsPeerConnected ==
  \A n \in hosted, p \in Identities :
    isPeerConnected(node[n], p) <=>
      (MapHas(node[n].directConnsRef, p) /\ IsOpen(conns, MapGet(node[n].directConnsRef, p), n))

\* C17: when the 5 s timeout of a matchmaking attempt fires while the node is
\* Searching and the main connection is not open, the attempt is cancelled:
\* the main slot and the in-flight flag are clear, so that a scan tick can
\* start a new attempt.
C17_TimeoutCancelsAttempt ==
  (ev.op = "connectionTimeout" /\ node[ev.n].status = SEARCHING) =>
    /\ ~node[ev.n].isMatchmakerRef
    /\ node[ev.n].mainConnRef # NoConn => IsOpen(conns, node[ev.n].mainConnRef, ev.n)

\* C18: a node (whose presence channel is ready) enters Connected only by the
\* open event of its main connection; on entry the conversation is exactly
\* the greeting and the last published presence status is busy.
C18_ConnectedEntry ==
  [][\A n \in hosted :
       (node[n].status # CONNECTED /\ node'[n].status = CONNECTED /\ node[n].channelRef)
         => /\ ev'.op = "open" /\ ev'.n = n /\ ev'.isMain
            /\ IsOpen(conns', node'[n].mainConnRef, n)
            /\ node'[n].messages = <<INITIAL_GREETING>>
            /\ node'[n].tracked = "busy"]_vars

\* The positions of the candidates in the presence list of n: status waiting
\* and an identity other than n
Candidates(n) ==
  {i \in 1..Len(node[n].onlineUsers) :
     node[n].onlineUsers[i].status = "waiting" /\ node[n].onlineUsers[i].peerId # n}

\* C19: a scan tick connects, with role main, to a candidate whose timestamp
\* is the least among the candidates; with no candidate it creates no
\* connection and leaves the in-flight flag and the main slot clear.
C19_CandidateSelection ==
  [][\A n \in hosted :
       (ev'.op = "scanTick" /\ ev'.n = n) =>
         IF Candidates(n) = {}
         THEN /\ conns' = conns
              /\ ~node'[n].isMatchmakerRef /\ node'[n].mainConnRef = NoConn
         ELSE /\ Len(conns') = Len(conns) + 1
              /\ node'[n].mainConnRef = Len(conns')
              /\ LET new == conns'[Len(conns')]
                 IN /\ new.src = n /\ new.kind = "random"
                    /\ \E i \in Candidates(n) :
                          /\ node[n].onlineUsers[i].peerId = new.dst
                          /\ \A j \in Candidates(n) :
                                node[n].onlineUsers[i].timestamp
                                  <= node[n].onlineUsers[j].timestamp]_vars

\* C19 happens: the tick connected to a candidate that is not the first of
\* the list, while the node's own entry is waiting, comes first and is no later
C19_Witness ==
  /\ ev.op = "scanTick" /\ ev.isMain
  /\ LET s == node[ev.n]
     IN /\ s.mainConnRef # NoConn
        /\ Len(Waiting(s)) = 2
        /\ Waiting(s)[1].peerId # conns[s.mainConnRef].dst
        /\ s.onlineUsers[1].peerId = ev.n /\ s.onlineUsers[1].status = "waiting"
        /\ s.onlineUsers[1].timestamp <= Waiting(s)[2].timestamp

\* C19 also happens: a tick found no candidate
C19_IdleTick == ev.op = "scanTick" /\ ~ev.isMain

Ready(s) == s.channelRef /\ s.myPeerId # Null

\* C21: connect() called when the presence channel or the local identity is
\* not ready sets the error string and changes nothing else: the status, the
\* conversation and the published presence status stay, and no waiting entry
\* is published.
C21_ConnectNotReady ==
  [][\A n \in hosted :
       (ev'.op = "connect" /\ ev'.n = n /\ ~Ready(node[n])) =>
         /\ node'[n].error = "Connection lost. Please refresh."
         /\ node'[n] = [node[n] EXCEPT !.error = "Connection lost. Please refresh.",
                                       !.out = << >>]
         /\ node'[n].tracked # "waiting"
         /\ conns' = conns]_vars

\* C21 happens: connect() was called before the identity was resolved, after a
\* disconnect() had left the status Disconnected
C21_Witness ==
  /\ ev.op = "connect" /\ ~Ready(node[ev.n])
  /\ node[ev.n].error = "Connection lost. Please refresh."
  /\ node[ev.n].status = DISCONNECTED

\* C22: a history load makes at most 3 fetches; a retry is scheduled only by
\* a failed fetch, with a delay of 2 s, and none after the third failure; no
\* retry stays scheduled, and none runs, for a load whose effect was torn
\* down (by the unmount or by the change of myPeerId).
C22_HistoryLoadTerminates ==
  [][\A n \in hosted :
       LET s == node[n]
           t == node'[n]
       IN /\ \A e \in 1..Len(t.historyStarted) : t.historyStarted[e] <= 3
          /\ \A timer \in t.retryTimers \ s.retryTimers :
                /\ ev'.op = "historyFail" /\ ev'.c < 3 /\ timer.attempt = ev'.c + 1
                /\ timer.delay = 2000
                /\ t.retryTimers \ s.retryTimers = {timer}
          /\ (ev'.op = "historyFail" /\ ev'.c >= 3) => t.retryTimers \subseteq s.retryTimers
          /\ \A timer \in t.retryTimers : Mounted(t, timer.effect)
          /\ \A e \in 1..Len(s.historyStarted) :
                (ev'.op = "historyRetry" /\ t.historyStarted[e] > s.historyStarted[e])
                  => Mounted(s, e)]_vars

\* C22 happens: the load of the first run was torn down with its retry
\* pending, and the load of the second run failed for the third time
C22_Witness ==
  /\ ev.op = "historyFail" /\ ev.c = 3
  /\ node[ev.n].globalMounted
  /\ node[ev.n].historyStarted = <<2, 3>>
  /\ node[ev.n].retryTimers = {} /\ node[ev.n].historyFetches = {}

\* C27: however the optimistic sends, the realtime inserts (the echo of a
\* local send among them) and the completions of the history loads
\* interleave, no message id is twice in globalMessages, no id that was in the
\* list leaves it, and every id of a merged history is in the list.
C27_GlobalExactlyOnce ==
  [][\A n \in hosted :
       LET s == node[n]
           t == node'[n]
       IN /\ \A i, j \in 1..Len(t.globalMessages) :
                t.globalMessages[i].id = t.globalMessages[j].id => i = j
          /\ \A i \in 1..Len(s.globalMessages) : HasId(t.globalMessages, s.globalMessages[i].id)
          /\ (ev'.op = "historyLoaded" /\ ev'.frame = "merged" /\ ev'.n = n) =>
                \A f \in s.historyFetches \ t.historyFetches :
                  \A i \in 1..Len(f.history) : HasId(t.globalMessages, f.history[i].id)]_vars

\* C27 happens: a history was merged into a list that held one of its
\* messages (added by a realtime insert while the fetch was in flight) and an
\* optimistic message whose write has not settled, which the history cannot
\* have; the list holds three messages
C27_Witness ==
  /\ ev.op = "historyLoaded" /\ ev.frame = "merged" /\ ev.dup
  /\ Len(node[ev.n].globalMessages) = 3
  /\ \E m \in node[ev.n].globalOutbox : HasId(node[ev.n].globalMessages, m.id)

\* X and Y each opened a connection with role main to the other
MutualConnect ==
  \E cx, cy \in Used :
    /\ conns[cx].kind = "random" /\ conns[cx].src = "X" /\ conns[cx].dst = "Y"
    /\ conns[cy].kind = "random" /\ conns[cy].src = "Y" /\ conns[cy].dst = "X"

\* C23: after a mutual connect that left X and Y both Connected, a `message`
\* frame that X sent with sendMessage on its main connection is appended to
\* the main conversation of Y and is not surfaced on Y as a
\* direct-conversation event.
C23_MutualConnectRace ==
  (MutualConnect /\ node["X"].status = CONNECTED /\ node["Y"].status = CONNECTED) =>
    /\ \A i \in 1..Len(node["Y"].directEvents) : node["Y"].directEvents[i].id \notin LocalIds
    /\ (ev.op = "data" /\ ev.frame = "message" /\ ev.n = "Y" /\ ev.id \in LocalIds) =>
          \E i \in 1..Len(node["Y"].messages) : node["Y"].messages[i].id = ev.id

\* C24: when the 100 ms timer of cleanupMain fires and the main slot holds a
\* connection other than the one it held when disconnect() armed the timer,
\* that connection is not closed and stays in the main slot.
C24_DelayedCloseTarget ==
  [][\A n \in hosted :
       (ev'.op = "closeTimer" /\ ev'.n = n) =>
         LET main == node[n].mainConnRef
         IN (main # NoConn /\ main # Head(node[n].closeTargets)) =>
              /\ node'[n].mainConnRef = main
              /\ EndSt(conns', main, n) = EndSt(conns, main, n)]_vars

\* C25: a close event or a `disconnect` frame of a connection that is not the
\* registered direct connection of its remote identity leaves the direct
\* entry of that identity in the registry.
C25_StaleConnectionKeepsEntry ==
  [][\A n \in hosted :
       (/\ ev'.n = n
        /\ ev'.op = "close" \/ (ev'.op = "data" /\ ev'.frame = "disconnect"))
       => LET p == PeerOf(conns, ev'.c, n)
              registered == MapGet(node[n].directConnsRef, p)
          IN (registered # NoConn /\ registered # ev'.c) =>
               MapGet(node'[n].directConnsRef, p) = registered]_vars

\* C26: Connected implies an open main connection: when the transport of the
\* main connection of a Connected node closes, the status leaves Connected
\* and the main slot no longer holds the closed connection (so that a later
\* search finds the slot free).
C26_MainCloseLeavesConnected ==
  [][\A n \in hosted :
       (ev'.op = "close" /\ ev'.n = n /\ ev'.isMain /\ node[n].status = CONNECTED) =>
         /\ node'[n].status # CONNECTED
         /\ node'[n].mainConnRef # ev'.c]_vars
====
